---------------------------- MODULE Spec2Model ----------------------------
(***************************************************************************)
(* Model of the reddit_agent package of SubredditMiner:                    *)
(*   services.py     LLMService, RedditScraperService, CeleryTaskService   *)
(*   models.py       the Django models and their database constraints      *)
(*   serializers.py  the ModelSerializers (which fields a client can write)*)
(* Strings are sequences of one-character strings.  Python floats are      *)
(* records: a finite value num/den, an infinity, or NaN.                   *)
(***************************************************************************)
EXTENDS Integers, Sequences, FiniteSets, TLC

VARIABLES
    llm,          \* the last LLMService call: operation, provider outcome, result
    scraper,      \* the last RedditScraperService parse + validate
    queries,      \* table Query: id -> row (or NoRow)
    communities,  \* table RedditCommunity: rows in insertion order
    posts,        \* table RedditPost: rows in insertion order
    trackables,   \* table TrackableItem: rows in insertion order
    snapshots,    \* table Snapshot: rows in insertion order
    taskQueue,    \* Celery queue of scrape_reddit_community tasks
    now,          \* the clock (timezone.now), in hours
    lastOp        \* the last database operation and its outcome

vars == <<llm, scraper, queries, communities, posts, trackables, snapshots,
          taskQueue, now, lastOp>>

-----------------------------------------------------------------------------
(* Bounds of the model *)

MaxReplyLen == 4
MaxTopicLen == 4
MaxQueryLen == 2

-----------------------------------------------------------------------------
(* Python str.strip / str.split *)

IsSpace(ch) == ch \in {" "}

RECURSIVE lstrip(_)
lstrip(s) == IF s = <<>> THEN s
             ELSE IF IsSpace(Head(s)) THEN lstrip(Tail(s)) ELSE s

RECURSIVE rstrip(_)
rstrip(s) == IF s = <<>> THEN s
             ELSE IF IsSpace(s[Len(s)]) THEN rstrip(SubSeq(s, 1, Len(s) - 1)) ELSE s

strip(s) == rstrip(lstrip(s))

RECURSIVE split(_, _)
split(s, sep) ==
    IF \A i \in 1..Len(s) : s[i] # sep THEN <<s>>
    ELSE LET i == CHOOSE j \in 1..Len(s) :
                      s[j] = sep /\ \A k \in 1..(j - 1) : s[k] # sep
         IN <<SubSeq(s, 1, i - 1)>> \o split(SubSeq(s, i + 1, Len(s)), sep)

-----------------------------------------------------------------------------
(* Python float values, float(str), and the builtins max / min *)

Fin(n, d) == [k |-> "fin", num |-> n, den |-> d]
Inf(sign) == [k |-> "inf", num |-> sign, den |-> 1]
NaN       == [k |-> "nan", num |-> 0, den |-> 1]
ValueError == [k |-> "ValueError", num |-> 0, den |-> 1]

Zero == Fin(0, 1)
One  == Fin(1, 1)
Half == Fin(5, 10)

\* a > b on floats: every comparison with NaN is False
GT(a, b) ==
    /\ a.k # "nan"
    /\ b.k # "nan"
    /\ IF a.k = "inf" /\ b.k = "inf" THEN a.num > b.num
       ELSE IF a.k = "inf" THEN a.num > 0
       ELSE IF b.k = "inf" THEN b.num < 0
       ELSE a.num * b.den > b.num * a.den

\* max(a, b) keeps its first argument unless a later one is greater
py_max(a, b) == IF GT(b, a) THEN b ELSE a
\* min(a, b) keeps its first argument unless a later one is smaller
py_min(a, b) == IF GT(a, b) THEN b ELSE a

Digits == {"0", "1", "7"}
DigitVal(ch) == IF ch = "0" THEN 0 ELSE IF ch = "1" THEN 1 ELSE 7

RECURSIVE Pow10(_)
Pow10(n) == IF n = 0 THEN 1 ELSE 10 * Pow10(n - 1)

RECURSIVE DigitsVal(_)
DigitsVal(s) == IF s = <<>> THEN 0
                ELSE 10 * DigitsVal(SubSeq(s, 1, Len(s) - 1)) + DigitVal(s[Len(s)])

SelectChars(s, S) == SelectSeq(s, LAMBDA ch : ch \in S)

\* float(text): surrounding whitespace is ignored, then an optional sign, then
\* "nan", "inf", or a decimal numeral with at least one digit
float(text) ==
    LET s    == strip(text)
        neg  == s # <<>> /\ Head(s) = "-"
        body == IF neg THEN Tail(s) ELSE s
        sign == IF neg THEN -1 ELSE 1
        dots == Len(SelectChars(body, {"."}))
        digs == SelectChars(body, Digits)
        dot  == IF dots = 0 THEN Len(body) + 1
                ELSE CHOOSE j \in 1..Len(body) : body[j] = "."
    IN IF body = <<"n", "a", "n">> THEN NaN
       ELSE IF body = <<"i", "n", "f">> THEN Inf(sign)
       ELSE IF /\ \A i \in 1..Len(body) : body[i] \in Digits \cup {"."}
               /\ dots <= 1
               /\ digs # <<>>
            THEN Fin(sign * DigitsVal(digs),
                     Pow10(IF dots = 0 THEN 0 ELSE Len(body) - dot))
            ELSE ValueError

-----------------------------------------------------------------------------
(* LLMService (services.py).  A provider outcome is what
   self.model.generate_content(prompt) followed by response.text does. *)

ScoreChars == {" ", "-", ".", "0", "1", "7", "n", "a", "i", "f"}
TopicChars == {"a", "b", " ", ","}
QueryChars == {"a", " "}

Raised    == [kind |-> "raise", text |-> <<>>]     \* generate_content raises
Blocked   == [kind |-> "blocked", text |-> <<>>]   \* response.text raises
Text(t)   == [kind |-> "text", text |-> t]

Returned(v)  == [raised |-> FALSE, value |-> v]

\* the pieces are split but not stripped
extract_topics_unstripped(query_text, outcome) ==
    IF outcome.kind # "text" THEN Returned(<<query_text>>)
    ELSE Returned(split(outcome.text, ","))

\* services.py:26-48: a provider failure is caught and [query_text] returned
extract_topics(query_text, outcome) ==
    IF outcome.kind # "text" THEN Returned(<<query_text>>)
    ELSE LET pieces == split(outcome.text, ",")
         IN Returned([i \in 1..Len(pieces) |-> strip(pieces[i])])

\* the except branch returns the column default 0.0 instead of 0.5
score_community_relevance_zero_default(outcome) ==
    IF outcome.kind # "text" THEN Returned(Zero)
    ELSE LET score == float(outcome.text)
         IN IF score = ValueError THEN Returned(Zero)
            ELSE Returned(py_min(py_max(score, Zero), One))

\* services.py:50-79: float(response.text.strip()), clamped by min(max(score, 0), 1);
\* any exception gives 0.5
score_community_relevance(outcome) ==
    IF outcome.kind # "text" THEN Returned(Half)
    ELSE LET score == float(outcome.text)
         IN IF score = ValueError THEN Returned(Half)
            ELSE Returned(py_min(py_max(score, Zero), One))

NoResult == [raised |-> FALSE, value |-> <<>>]
NoCall   == [op |-> "none", pc |-> "idle", query |-> <<>>, outcome |-> Raised,
             result |-> NoResult]

\* the calls a caller can make, before the service has run
PendingCall(op, query, outcome) ==
    [op |-> op, pc |-> "pending", query |-> query, outcome |-> outcome,
     result |-> NoResult]

CallExtractTopics ==
    /\ llm.op = "extract_topics"
    /\ llm.pc = "pending"
    /\ llm' = [llm EXCEPT !.pc = "done",
                          !.result = extract_topics(llm.query, llm.outcome)]
    /\ UNCHANGED <<scraper, queries, communities, posts, trackables, snapshots,
                   taskQueue, now, lastOp>>

CallScore ==
    /\ llm.op = "score"
    /\ llm.pc = "pending"
    /\ llm' = [llm EXCEPT !.pc = "done",
                          !.result = score_community_relevance(llm.outcome)]
    /\ UNCHANGED <<scraper, queries, communities, posts, trackables, snapshots,
                   taskQueue, now, lastOp>>

-----------------------------------------------------------------------------
(* RedditScraperService (services.py).  A raw post is a Python dict: every key
   is either absent or bound to PyNone, a str or an int. *)

Absent  == [t |-> "absent", s |-> "", n |-> 0]    \* the key is not in the dict
PyNone    == [t |-> "none", s |-> "", n |-> 0]
PyStr(x)  == [t |-> "str", s |-> x, n |-> 0]
PyInt(x)  == [t |-> "int", s |-> "", n |-> x]

\* bool(v) for the values above
Truthy(v) == IF v.t = "str" THEN v.s # ""
             ELSE IF v.t = "int" THEN v.n # 0
             ELSE FALSE

\* dict.get(key) and dict.get(key, default)
get(d, key) == IF d[key] = Absent THEN PyNone ELSE d[key]
get_default(d, key, default) == IF d[key] = Absent THEN default ELSE d[key]

RawPosts ==
    [id           : {Absent, PyNone, PyStr(""), PyStr("t3_a"), PyStr("t3_b")},
     title        : {Absent, PyNone, PyStr(""), PyStr("Title")},
     selftext     : {Absent, PyStr("body")},
     author       : {PyStr("alice")},
     score        : {Absent, PyNone, PyInt(0), PyInt(5)},
     num_comments : {Absent, PyInt(0), PyInt(3)},
     url          : {Absent, PyStr("https://redd.it/a")}]

\* services.py:88-107: every key is read with dict.get
parse_reddit_post(post_data) ==
    [post_id        |-> get(post_data, "id"),
     title          |-> get(post_data, "title"),
     content        |-> get(post_data, "selftext"),
     author         |-> get(post_data, "author"),
     upvotes        |-> get_default(post_data, "score", PyInt(0)),
     comments_count |-> get_default(post_data, "num_comments", PyInt(0)),
     post_url       |-> get(post_data, "url")]

required_fields == {"post_id", "title"}

\* any() in place of all()
validate_post_data_any(post_data) ==
    \E field \in required_fields : Truthy(get(post_data, field))

\* services.py:109-121: all(post_data.get(field) for field in required_fields)
validate_post_data(post_data) ==
    \A field \in required_fields : Truthy(get(post_data, field))

NoPost == [post_id |-> Absent, title |-> Absent, content |-> Absent,
           author |-> Absent, upvotes |-> Absent, comments_count |-> Absent,
           post_url |-> Absent]

PendingRaws == {[pc |-> "raw", raw |-> r, parsed |-> NoPost, valid |-> FALSE] :
                    r \in RawPosts}

ParseRedditPost ==
    /\ scraper.pc = "raw"
    /\ scraper' = [scraper EXCEPT !.pc = "parsed",
                                  !.parsed = parse_reddit_post(scraper.raw)]
    /\ UNCHANGED <<llm, queries, communities, posts, trackables, snapshots,
                   taskQueue, now, lastOp>>

ValidatePostData ==
    /\ scraper.pc = "parsed"
    /\ scraper' = [scraper EXCEPT !.pc = "validated",
                                  !.valid = validate_post_data(scraper.parsed)]
    /\ UNCHANGED <<llm, queries, communities, posts, trackables, snapshots,
                   taskQueue, now, lastOp>>

-----------------------------------------------------------------------------
(* The database tables (models.py) and the serializers over them
   (serializers.py).  A table is the sequence of its rows in insertion order;
   a row's position stands for its uuid primary key. *)

MaxPosts == 3
MaxCommunities == 3

QueryIds     == {"q1", "q2"}
Names        == {"r/python", "r/golang"}
CommunityIds == {"c1", "c2"}
PostIds      == {"t3_a", "t3_b", "t3_c"}
Titles       == {"Title", "Title (edited)"}

Op(op, err, key) == [op |-> op, err |-> err, key |-> key]
NoOp == Op("none", "ok", <<>>)

Indices(rows) == 1..Len(rows)

(* ---- RedditPost: models.py:66-88, serializers.py:37-45 ---- *)

\* post_id unique only within its community
RedditPost_unique_per_community(rows, row, self) ==
    \E i \in Indices(rows) :
        i # self /\ rows[i].post_id = row.post_id /\ rows[i].community = row.community

\* models.py:73  post_id = CharField(unique=True); self is the row being
\* saved (0 for an insert)
RedditPost_unique_violated(rows, row, self) ==
    \E i \in Indices(rows) : i # self /\ rows[i].post_id = row.post_id

\* RedditPost.objects.create / RedditPostSerializer.create
RedditPostCreate ==
    /\ \E c \in CommunityIds, pid \in PostIds, title \in Titles :
          LET row == [community |-> c, post_id |-> pid, title |-> title]
          IN IF RedditPost_unique_violated(posts, row, 0)
             THEN /\ posts' = posts
                  /\ lastOp' = Op("RedditPost.create", "IntegrityError", <<pid>>)
             ELSE /\ Len(posts) < MaxPosts
                  /\ posts' = Append(posts, row)
                  /\ lastOp' = Op("RedditPost.create", "ok", <<pid>>)
    /\ UNCHANGED <<llm, scraper, queries, communities, trackables, snapshots,
                   taskQueue, now>>

\* RedditPostSerializer.update: community, post_id and title are writable
RedditPostSerializerUpdate ==
    /\ \E i \in Indices(posts), c \in CommunityIds, pid \in PostIds, title \in Titles :
          LET row == [community |-> c, post_id |-> pid, title |-> title]
          IN IF RedditPost_unique_violated(posts, row, i)
             THEN /\ posts' = posts
                  /\ lastOp' = Op("RedditPostSerializer.update", "ValidationError", <<pid>>)
             ELSE /\ posts' = [posts EXCEPT ![i] = row]
                  /\ lastOp' = Op("RedditPostSerializer.update", "ok", <<pid>>)
    /\ UNCHANGED <<llm, scraper, queries, communities, trackables, snapshots,
                   taskQueue, now>>

(* ---- Query: models.py:7-36, serializers.py:8-20 ---- *)

STATUS_CHOICES == {"pending", "processing", "completed", "failed"}
NoRow == [status |-> "absent"]
QueryExists(q) == queries[q] # NoRow

\* QuerySerializer.create: 'status' is not read-only, so the client may give
\* any of the choices; left out, the model default 'pending' applies
QuerySerializerCreate ==
    /\ \E q \in QueryIds, status \in STATUS_CHOICES :
          /\ ~QueryExists(q)
          /\ queries' = [queries EXCEPT ![q] = [status |-> status]]
          /\ lastOp' = Op("QuerySerializer.create", "ok", <<q>>)
    /\ UNCHANGED <<llm, scraper, communities, posts, trackables, snapshots,
                   taskQueue, now>>

\* QuerySerializer.update: 'status' is a writable ChoiceField
QuerySerializerUpdate ==
    /\ \E q \in QueryIds, status \in STATUS_CHOICES :
          /\ QueryExists(q)
          /\ queries' = [queries EXCEPT ![q] = [status |-> status]]
          /\ lastOp' = Op("QuerySerializer.update", "ok", <<q>>)
    /\ UNCHANGED <<llm, scraper, communities, posts, trackables, snapshots,
                   taskQueue, now>>

(* ---- RedditCommunity: models.py:39-63, serializers.py:23-34 ---- *)

\* name unique over the whole table, the query left out of the constraint
RedditCommunity_name_violated(rows, row, self) ==
    \E i \in Indices(rows) : i # self /\ rows[i].name = row.name

\* models.py:55  unique_together = ['query', 'name']
RedditCommunity_unique_violated(rows, row, self) ==
    \E i \in Indices(rows) :
        i # self /\ rows[i].query = row.query /\ rows[i].name = row.name

CommunityRow(q, name, score) == [query |-> q, name |-> name, relevance_score |-> score]

\* the insert of one row into RedditCommunity
InsertCommunity(row, op) ==
    IF RedditCommunity_unique_violated(communities, row, 0)
    THEN /\ communities' = communities
         /\ lastOp' = Op(op, "IntegrityError", <<row.query, row.name>>)
    ELSE /\ Len(communities) < MaxCommunities
         /\ communities' = Append(communities, row)
         /\ lastOp' = Op(op, "ok", <<row.query, row.name>>)

\* RedditCommunity.objects.create(query=q, name=name, relevance_score=score)
RedditCommunityCreate ==
    /\ \E q \in QueryIds, name \in Names, score \in {Zero, Fin(7, 10)} :
          /\ QueryExists(q)
          /\ InsertCommunity(CommunityRow(q, name, score), "RedditCommunity.create")
    /\ UNCHANGED <<llm, scraper, queries, posts, trackables, snapshots,
                   taskQueue, now>>

\* RedditCommunitySerializer.update: 'name' and 'relevance_score' are writable,
\* 'query' is not a field of the serializer
RedditCommunitySerializerUpdate ==
    /\ \E i \in Indices(communities), name \in Names, score \in {Zero, Fin(7, 10)} :
          LET row == CommunityRow(communities[i].query, name, score)
          IN IF RedditCommunity_unique_violated(communities, row, i)
             THEN /\ communities' = communities
                  /\ lastOp' = Op("RedditCommunitySerializer.update", "IntegrityError",
                                  <<row.query, name>>)
             ELSE /\ communities' = [communities EXCEPT ![i] = row]
                  /\ lastOp' = Op("RedditCommunitySerializer.update", "ok",
                                  <<row.query, name>>)
    /\ UNCHANGED <<llm, scraper, queries, posts, trackables, snapshots,
                   taskQueue, now>>

(* ---- the discovery pipeline of a Query (its driver is outside the three
        modules covered here; the steps follow the design's sections 4.1
        and 4.2) ---- *)

PipelineOutcomes == {Raised, Text(<<".", "7">>)}

BeginProcessing ==
    /\ \E q \in QueryIds :
          /\ queries[q].status = "pending"
          /\ queries' = [queries EXCEPT ![q] = [status |-> "processing"]]
          /\ lastOp' = Op("pipeline.begin", "ok", <<q>>)
    /\ UNCHANGED <<llm, scraper, communities, posts, trackables, snapshots,
                   taskQueue, now>>

\* one candidate of a processing Query is scored and inserted; a duplicate
\* name is discarded
DiscoverCommunity ==
    /\ \E q \in QueryIds, name \in Names, o \in PipelineOutcomes :
          /\ queries[q].status = "processing"
          /\ InsertCommunity(CommunityRow(q, name, score_community_relevance(o).value),
                             "pipeline.discover")
    /\ UNCHANGED <<llm, scraper, queries, posts, trackables, snapshots,
                   taskQueue, now>>

FinishQuery ==
    /\ \E q \in QueryIds, status \in {"completed", "failed"} :
          /\ queries[q].status = "processing"
          /\ queries' = [queries EXCEPT ![q] = [status |-> status]]
          /\ lastOp' = Op("pipeline.finish", "ok", <<q>>)
    /\ UNCHANGED <<llm, scraper, communities, posts, trackables, snapshots,
                   taskQueue, now>>

(* ---- TrackableItem: models.py:94-114, serializers.py:48-57 ---- *)

MaxTime == 1
MaxSnapshots == 2
MaxTasks == 1

UserIds == {"u1", "u2"}
FrequencyHours == {1}
Null == -1                     \* a DateTimeField(null=True) holding NULL

\* the pair constraint alone, as if community were a plain ForeignKey
TrackableItem_pair_violated(rows, row, self) ==
    \E i \in Indices(rows) :
        i # self /\ rows[i].community = row.community /\ rows[i].user = row.user

\* models.py:100  community = OneToOneField(RedditCommunity), a unique column;
\* models.py:108  unique_together = ['community', 'user']
TrackableItem_unique_violated(rows, row, self) ==
    \E i \in Indices(rows) :
        /\ i # self
        /\ \/ rows[i].community = row.community
           \/ rows[i].community = row.community /\ rows[i].user = row.user

\* promote(community, user, frequency_hours): the creation of a TrackableItem
\* from these three values; tracking_enabled and last_scraped_at take the
\* model defaults (last_scraped_at is read-only in the serializer)
promote ==
    /\ \E c \in CommunityIds, u \in UserIds, f \in FrequencyHours :
          LET row == [community |-> c, user |-> u, tracking_enabled |-> TRUE,
                      last_scraped_at |-> Null, scrape_frequency_hours |-> f]
          IN IF TrackableItem_unique_violated(trackables, row, 0)
             THEN /\ trackables' = trackables
                  /\ lastOp' = Op("promote", "IntegrityError", <<c, u>>)
             ELSE /\ trackables' = Append(trackables, row)
                  /\ lastOp' = Op("promote", "ok", <<c, u>>)
    /\ UNCHANGED <<llm, scraper, queries, communities, posts, snapshots,
                   taskQueue, now>>

\* TrackableItemSerializer.update: tracking_enabled and scrape_frequency_hours
\* are writable, last_scraped_at is not
TrackableItemSerializerUpdate ==
    /\ \E i \in Indices(trackables), enabled \in BOOLEAN, f \in FrequencyHours :
          /\ trackables' = [trackables EXCEPT ![i].tracking_enabled = enabled,
                                              ![i].scrape_frequency_hours = f]
    /\ lastOp' = NoOp
    /\ UNCHANGED <<llm, scraper, queries, communities, posts, snapshots,
                   taskQueue, now>>

(* ---- Snapshot: models.py:117-146, serializers.py:60-69 ---- *)

SNAPSHOT_STATUS_CHOICES == {"pending", "in_progress", "completed", "failed"}
InFlight == {"pending", "in_progress"}

SnapshotRow(c, status, completed_at) ==
    [community |-> c, status |-> status, completed_at |-> completed_at]

\* SnapshotSerializer.create: community, status and completed_at are writable;
\* the table has no uniqueness constraint
SnapshotSerializerCreate ==
    /\ \E c \in CommunityIds, status \in SNAPSHOT_STATUS_CHOICES :
          /\ Len(snapshots) < MaxSnapshots
          /\ snapshots' = Append(snapshots, SnapshotRow(c, status, Null))
    /\ lastOp' = NoOp
    /\ UNCHANGED <<llm, scraper, queries, communities, posts, trackables,
                   taskQueue, now>>

\* SnapshotSerializer.update: writes the Snapshot row and nothing else
SnapshotSerializerUpdate ==
    /\ \E i \in Indices(snapshots), status \in SNAPSHOT_STATUS_CHOICES,
          completed_at \in {Null, now} :
          snapshots' = [snapshots EXCEPT ![i].status = status,
                                         ![i].completed_at = completed_at]
    /\ lastOp' = NoOp
    /\ UNCHANGED <<llm, scraper, queries, communities, posts, trackables,
                   taskQueue, now>>

(* ---- CeleryTaskService: services.py:152-180 ---- *)

DelayMinutes == {0, 1}

\* services.py:158-180: the task is sent to the queue whatever the state of
\* the community's Snapshots is
schedule_scraping_task ==
    /\ \E c \in CommunityIds, delay_minutes \in DelayMinutes :
          /\ Len(taskQueue) < MaxTasks
          /\ taskQueue' = Append(taskQueue,
                 [community |-> c,
                  countdown |-> IF delay_minutes > 0 THEN delay_minutes * 60 ELSE 0])
    /\ lastOp' = NoOp
    /\ UNCHANGED <<llm, scraper, queries, communities, posts, trackables,
                   snapshots, now>>

(* ---- the snapshot scheduler and the scraping worker (reddit_agent.tasks
        is outside the three modules covered here; the steps follow the
        design's sections 4.4 and 5) ---- *)

InFlightOf(c) == {i \in Indices(snapshots) :
                     snapshots[i].community = c /\ snapshots[i].status \in InFlight}

Due(t) == \/ t.last_scraped_at = Null
          \/ now - t.last_scraped_at >= t.scrape_frequency_hours

\* one pass over a due, enabled item: claim (check and create) a Snapshot
SchedulerPass ==
    /\ \E i \in Indices(trackables) :
          /\ trackables[i].tracking_enabled
          /\ Due(trackables[i])
          /\ InFlightOf(trackables[i].community) = {}
          /\ Len(snapshots) < MaxSnapshots
          /\ snapshots' = Append(snapshots,
                                 SnapshotRow(trackables[i].community, "pending", Null))
    /\ lastOp' = NoOp
    /\ UNCHANGED <<llm, scraper, queries, communities, posts, trackables,
                   taskQueue, now>>

\* the worker takes the next task: it moves the community's pending Snapshot
\* to in_progress, claims a new one when none is in flight, and skips when
\* another one is already in progress
WorkerStart ==
    /\ taskQueue # <<>>
    /\ LET c       == Head(taskQueue).community
           pending == {i \in InFlightOf(c) : snapshots[i].status = "pending"}
       IN IF pending # {}
          THEN LET i == CHOOSE j \in pending : \A k \in pending : j <= k
               IN snapshots' = [snapshots EXCEPT ![i].status = "in_progress"]
          ELSE IF InFlightOf(c) = {} /\ Len(snapshots) < MaxSnapshots
          THEN snapshots' = Append(snapshots, SnapshotRow(c, "in_progress", Null))
          ELSE snapshots' = snapshots
    /\ taskQueue' = Tail(taskQueue)
    /\ lastOp' = NoOp
    /\ UNCHANGED <<llm, scraper, queries, communities, posts, trackables, now>>

\* completion: the status write and the last_scraped_at write are one
\* transaction
WorkerComplete ==
    /\ \E i \in Indices(snapshots) :
          /\ snapshots[i].status = "in_progress"
          /\ snapshots' = [snapshots EXCEPT ![i].status = "completed",
                                            ![i].completed_at = now]
          /\ trackables' = [j \in Indices(trackables) |->
                 IF trackables[j].community = snapshots[i].community
                 THEN [trackables[j] EXCEPT !.last_scraped_at = now]
                 ELSE trackables[j]]
    /\ lastOp' = NoOp
    /\ UNCHANGED <<llm, scraper, queries, communities, posts, taskQueue, now>>

WorkerFail ==
    /\ \E i \in Indices(snapshots) :
          /\ snapshots[i].status = "in_progress"
          /\ snapshots' = [snapshots EXCEPT ![i].status = "failed"]
    /\ lastOp' = NoOp
    /\ UNCHANGED <<llm, scraper, queries, communities, posts, trackables,
                   taskQueue, now>>

Tick ==
    /\ now < MaxTime
    /\ now' = now + 1
    /\ lastOp' = NoOp
    /\ UNCHANGED <<llm, scraper, queries, communities, posts, trackables,
                   snapshots, taskQueue>>

-----------------------------------------------------------------------------
InitStore ==
    /\ queries = [q \in QueryIds |-> NoRow]
    /\ communities = <<>>
    /\ posts = <<>>
    /\ trackables = <<>>
    /\ snapshots = <<>>
    /\ taskQueue = <<>>
    /\ now = 0
    /\ lastOp = NoOp

NoScrape == [pc |-> "idle", raw |-> NoPost, parsed |-> NoPost, valid |-> FALSE]

\* a caller is about to make one call: the provider will raise, or answer
\* some text of bounded length
InitLLM ==
    /\ \E k \in 0..MaxQueryLen : \E q \in [1..k -> QueryChars] :
          \/ \E o \in {Raised, Blocked} : llm = PendingCall("extract_topics", q, o)
          \/ \E n \in 0..MaxTopicLen : \E t \in [1..n -> TopicChars] :
                llm = PendingCall("extract_topics", q, Text(t))
          \/ /\ q = <<>>
             /\ \/ \E o \in {Raised, Blocked} : llm = PendingCall("score", <<>>, o)
                \/ \E n \in 0..MaxReplyLen : \E t \in [1..n -> ScoreChars] :
                      llm = PendingCall("score", <<>>, Text(t))
    /\ scraper = NoScrape
    /\ InitStore

InitScraper == llm = NoCall /\ scraper \in PendingRaws /\ InitStore

Init == llm = NoCall /\ scraper = NoScrape /\ InitStore

NextLLM == CallExtractTopics \/ CallScore

SpecLLM == InitLLM /\ [][NextLLM]_vars

NextScraper == ParseRedditPost \/ ValidatePostData

SpecScraper == InitScraper /\ [][NextScraper]_vars

NextPosts == RedditPostCreate \/ RedditPostSerializerUpdate

SpecPosts == Init /\ [][NextPosts]_vars

\* two Queries have been submitted
InitCommunity ==
    /\ llm = NoCall
    /\ scraper = NoScrape
    /\ queries = [q \in QueryIds |-> [status |-> "pending"]]
    /\ communities = <<>>
    /\ posts = <<>>
    /\ trackables = <<>>
    /\ snapshots = <<>>
    /\ taskQueue = <<>>
    /\ now = 0
    /\ lastOp = NoOp

NextCommunity == RedditCommunityCreate \/ RedditCommunitySerializerUpdate

SpecCommunity == InitCommunity /\ [][NextCommunity]_vars

NextQuery ==
    \/ QuerySerializerCreate
    \/ QuerySerializerUpdate
    \/ BeginProcessing
    \/ DiscoverCommunity
    \/ FinishQuery

SpecQuery == Init /\ [][NextQuery]_vars

NextTracking == promote \/ TrackableItemSerializerUpdate

SpecTracking == Init /\ [][NextTracking]_vars

\* each community is either untracked or was promoted by a user and has not
\* been scraped yet
TrackedRow(c) == [community |-> c, user |-> "u1", tracking_enabled |-> TRUE,
                  last_scraped_at |-> Null, scrape_frequency_hours |-> 1]
Registries == {<<>>, <<TrackedRow("c1")>>, <<TrackedRow("c2")>>,
               <<TrackedRow("c1"), TrackedRow("c2")>>}

InitSnapshot ==
    /\ llm = NoCall
    /\ scraper = NoScrape
    /\ queries = [q \in QueryIds |-> NoRow]
    /\ communities = <<>>
    /\ posts = <<>>
    /\ trackables \in Registries
    /\ snapshots = <<>>
    /\ taskQueue = <<>>
    /\ now = 0
    /\ lastOp = NoOp

NextSnapshot ==
    \/ TrackableItemSerializerUpdate
    \/ SnapshotSerializerCreate
    \/ SnapshotSerializerUpdate
    \/ schedule_scraping_task
    \/ SchedulerPass
    \/ WorkerStart
    \/ WorkerComplete
    \/ WorkerFail
    \/ Tick

SpecSnapshot == InitSnapshot /\ [][NextSnapshot]_vars

-----------------------------------------------------------------------------
(* Claims about LLMService, checked under SpecLLM *)

ScoreDone   == llm.op = "score" /\ llm.pc = "done"
ExtractDone == llm.op = "extract_topics" /\ llm.pc = "done"

InUnitInterval(v) == v.k = "fin" /\ 0 <= v.num /\ v.num <= v.den

\* C1: whatever the provider returns, score_community_relevance returns a value
\* in the closed interval [0,1].
C1_ScoreInUnitInterval ==
    ScoreDone => /\ ~llm.result.raised
                 /\ InUnitInterval(llm.result.value)

\* the provider failed for this candidate: the call raised, or the reply is
\* not the text of a number
ProviderFails(o) == o.kind # "text" \/ float(o.text) = ValueError

CommaPos(t) == {i \in 1..Len(t) : t[i] = ","}
NthComma(t, k) == CHOOSE i \in CommaPos(t) : Cardinality({j \in CommaPos(t) : j <= i}) = k
PieceLo(t, k) == IF k = 1 THEN 1 ELSE NthComma(t, k - 1) + 1
PieceHi(t, k) == IF k = Cardinality(CommaPos(t)) + 1 THEN Len(t) ELSE NthComma(t, k) - 1
Trimmed(t, lo, hi) ==
    LET inked == {i \in lo..hi : t[i] # " "}
    IN IF inked = {} THEN <<>>
       ELSE SubSeq(t, CHOOSE i \in inked : \A j \in inked : i <= j,
                      CHOOSE i \in inked : \A j \in inked : i >= j)
PiecesOf(t) == [k \in 1..(Cardinality(CommaPos(t)) + 1) |->
                    Trimmed(t, PieceLo(t, k), PieceHi(t, k))]

\* C3: extract_topics never propagates a provider error; on failure it returns
\* [query_text], on success the comma-separated pieces of the reply, each
\* stripped of surrounding whitespace.
C3_ExtractTopicsDegrades ==
    ExtractDone =>
        /\ ~llm.result.raised
        /\ llm.outcome.kind # "text" => llm.result.value = <<llm.query>>
        /\ llm.outcome.kind = "text" => llm.result.value = PiecesOf(llm.outcome.text)

RECURSIVE SumLen(_)
SumLen(ss) == IF ss = <<>> THEN 0 ELSE Len(Head(ss)) + SumLen(Tail(ss))

\* a successful reply with several pieces, some of which lost whitespace
C3_Witness ==
    /\ ExtractDone
    /\ llm.outcome.kind = "text"
    /\ Len(llm.result.value) >= 2
    /\ SumLen(llm.result.value) + Len(llm.result.value) - 1 < Len(llm.outcome.text)
    /\ \E i \in 1..Len(llm.result.value) : llm.result.value[i] # <<>>

-----------------------------------------------------------------------------
(* Claims about RedditScraperService, checked under SpecScraper *)

NonEmpty(v) == v.t = "str" /\ v.s # ""

\* C10: validate_post_data(parse_reddit_post(raw)) is True exactly when raw has
\* a non-empty 'id' and a non-empty 'title', whatever the other fields are;
\* the parse binds every output key, and upvotes and comments_count are 0
\* when 'score' and 'num_comments' are absent.
C10_ValidIffIdAndTitle ==
    /\ scraper.pc = "validated" =>
           scraper.valid = (NonEmpty(scraper.raw.id) /\ NonEmpty(scraper.raw.title))
    /\ scraper.pc \in {"parsed", "validated"} =>
           /\ \A key \in DOMAIN scraper.parsed : scraper.parsed[key] # Absent
           /\ scraper.raw.score = Absent => scraper.parsed.upvotes = PyInt(0)
           /\ scraper.raw.num_comments = Absent => scraper.parsed.comments_count = PyInt(0)

\* a post rejected only because its title is an empty string, with 'score'
\* and 'num_comments' missing
C10_Witness ==
    /\ scraper.pc = "validated"
    /\ ~scraper.valid
    /\ NonEmpty(scraper.raw.id)
    /\ scraper.raw.title = PyStr("")
    /\ scraper.raw.score = Absent
    /\ scraper.raw.num_comments = Absent
    /\ scraper.parsed.upvotes = PyInt(0)

-----------------------------------------------------------------------------
(* Claims about the RedditPost table, checked under SpecPosts *)

StoredPostIds(rows) == {rows[i].post_id : i \in Indices(rows)}

PostIdsDistinct ==
    \A i, j \in Indices(posts) : posts[i].post_id = posts[j].post_id => i = j

PostStep ==
    /\ Len(posts') > Len(posts) =>
          /\ Len(posts') = Len(posts) + 1
          /\ SubSeq(posts', 1, Len(posts)) = posts
          /\ posts'[Len(posts')].post_id \notin StoredPostIds(posts)
    /\ (lastOp'.op = "RedditPost.create" /\ lastOp'.key[1] \in StoredPostIds(posts)) =>
          posts' = posts

\* C7: no two stored posts have the same post_id; ingesting a post whose
\* post_id is already stored creates no row, and the table grows by one row
\* only for a post_id not seen before.
C7_PostIdUnique == []PostIdsDistinct /\ [][PostStep]_vars

\* a re-ingestion was refused while the same post_id is stored for the other
\* community
C7_Witness ==
    /\ lastOp.op = "RedditPost.create"
    /\ lastOp.err = "IntegrityError"
    /\ Len(posts) >= 2
    /\ \E i \in Indices(posts) : posts[i].post_id = lastOp.key[1]

-----------------------------------------------------------------------------
(* Claims about the RedditCommunity table, checked under SpecCommunity *)

Recorded(rows, q, name) ==
    \E i \in Indices(rows) : rows[i].query = q /\ rows[i].name = name

CommunitiesDistinct ==
    \A i, j \in Indices(communities) :
        (communities[i].query = communities[j].query
            /\ communities[i].name = communities[j].name) => i = j

CommunityStep ==
    lastOp'.op = "RedditCommunity.create" =>
        LET q    == lastOp'.key[1]
            name == lastOp'.key[2]
        IN IF Recorded(communities, q, name)
           THEN communities' = communities
           ELSE /\ Len(communities') = Len(communities) + 1
                /\ SubSeq(communities', 1, Len(communities)) = communities
                /\ communities'[Len(communities')].query = q
                /\ communities'[Len(communities')].name = name

\* C4: no two stored communities share (query, name); inserting a name already
\* recorded for the Query stores nothing and leaves the first record as it
\* was, while the same name under another Query is stored as its own record.
C4_CommunityUniquePerQuery == []CommunitiesDistinct /\ [][CommunityStep]_vars

\* a duplicate was refused while the same name is stored under both Queries
C4_Witness ==
    /\ lastOp.op = "RedditCommunity.create"
    /\ lastOp.err = "IntegrityError"
    /\ \E i, j \in Indices(communities) :
          /\ communities[i].name = lastOp.key[2]
          /\ communities[j].name = lastOp.key[2]
          /\ communities[i].query # communities[j].query

-----------------------------------------------------------------------------
(* Claims about the Query lifecycle, checked under SpecQuery *)

Terminal == {"completed", "failed"}

QueryStep ==
    \A q \in QueryIds :
        queries[q].status \in Terminal => queries'[q].status = queries[q].status

\* C5: a Query whose status is completed or failed never changes status
\* again, through any operation, an update through QuerySerializer included.
C5_TerminalStatusIsFinal == [][QueryStep]_vars

-----------------------------------------------------------------------------
(* Claims about the TrackableItem table, checked under SpecTracking *)

TrackedBy(c, u) ==
    \E i \in Indices(trackables) :
        trackables[i].community = c /\ trackables[i].user = u
Tracked(c) == \E i \in Indices(trackables) : trackables[i].community = c

\* the promote step either fails and changes nothing, or appends a fresh,
\* enabled, never-scraped item for (c, u)
PromoteFails == lastOp'.err # "ok" /\ trackables' = trackables
PromoteCreates(c, u) ==
    /\ lastOp'.err = "ok"
    /\ Len(trackables') = Len(trackables) + 1
    /\ SubSeq(trackables', 1, Len(trackables)) = trackables
    /\ LET t == trackables'[Len(trackables')]
       IN /\ t.community = c
          /\ t.user = u
          /\ t.tracking_enabled = TRUE
          /\ t.last_scraped_at = Null

\* C8 as stated: promote fails exactly when an item exists for the same
\* community and user, and creates an item in every other case, also when
\* the community is tracked by another user.
C8_FailsOnlyForSamePair ==
    [][lastOp'.op = "promote" =>
          IF TrackedBy(lastOp'.key[1], lastOp'.key[2])
          THEN PromoteFails
          ELSE PromoteCreates(lastOp'.key[1], lastOp'.key[2])]_vars

\* C8 (amended): promote fails, leaving the registry unchanged, exactly when
\* an item already exists for the community, whoever its user is; otherwise
\* it creates an item with tracking_enabled = true and last_scraped_at = null.
C8_FailsWhenCommunityTracked ==
    [][lastOp'.op = "promote" =>
          IF Tracked(lastOp'.key[1])
          THEN PromoteFails
          ELSE PromoteCreates(lastOp'.key[1], lastOp'.key[2])]_vars

\* a promote was refused for a community that only another user tracks
C8_Witness ==
    /\ lastOp.op = "promote"
    /\ lastOp.err = "IntegrityError"
    /\ Tracked(lastOp.key[1])
    /\ ~TrackedBy(lastOp.key[1], lastOp.key[2])

-----------------------------------------------------------------------------
(* Claims about the Snapshot table, checked under SpecSnapshot *)

\* C6: for every community at most one Snapshot is pending or in_progress.
C6_AtMostOneInFlight ==
    \A c \in CommunityIds : Cardinality(InFlightOf(c)) <= 1

\* C9: whenever a Snapshot is completed, the last_scraped_at of the
\* TrackableItem of its community is at least the Snapshot's completed_at.
C9_CompletedAdvancesLastScraped ==
    \A i \in Indices(snapshots), j \in Indices(trackables) :
        (/\ snapshots[i].status = "completed"
         /\ snapshots[i].completed_at # Null
         /\ trackables[j].community = snapshots[i].community)
        => (/\ trackables[j].last_scraped_at # Null
            /\ trackables[j].last_scraped_at >= snapshots[i].completed_at)

=============================================================================
